---- MODULE Spec2Model ----
(***************************************************************************)
(* PN532 NFC reader driver over SPI (firmware/src/lib/pn532.c).            *)
(*                                                                         *)
(* The driver is modelled as a state machine.  A driver operation is a     *)
(* call action (which builds and writes the command frame), the iterations *)
(* of pn532_wait_ready, the acknowledge read, and a return action (the     *)
(* response read followed by the operation's own processing).  The chip    *)
(* and the SPI transport are the environment: the status bytes, the        *)
(* acknowledge bytes and the response byte streams are inputs chosen from  *)
(* small sets.  C arrays are sequences; At(a, i) is the C expression a[i]. *)
(***************************************************************************)
EXTENDS Integers, Sequences, FiniteSets, TLC

\* ------------------------------------------------------------------------
\* Program constants
\* ------------------------------------------------------------------------
PN532_PREAMBLE == 0
PN532_STARTCODE1 == 0
PN532_STARTCODE2 == 255
PN532_POSTAMBLE == 0
PN532_HOSTTOPN532 == 212
PN532_PN532TOHOST == 213
DATA_WRITE == 1
\* for (int retry = 0; retry < 30; retry++)
MaxAttempts == 30
\* static uint8_t readbuf[255]
ReadbufSize == 255
\* the status value that means "ready"
StatusReady == 1

\* ------------------------------------------------------------------------
\* Bounds of the model
\* ------------------------------------------------------------------------
\* number of command exchanges started in one run
MaxOps == 2

\* ------------------------------------------------------------------------
\* C helpers
\* ------------------------------------------------------------------------
At(a, i) == a[i + 1]

U8(x) == x % 256

Min(a, b) == IF a < b THEN a ELSE b

Max(a, b) == IF a > b THEN a ELSE b

\* s[lo] + ... + s[hi], halving the range so that 255 bytes nest 8 deep
RECURSIVE SumRange(_, _, _)
SumRange(s, lo, hi) ==
    IF lo > hi THEN 0
    ELSE IF lo = hi THEN s[lo]
    ELSE SumRange(s, lo, (lo + hi) \div 2)
         + SumRange(s, (lo + hi) \div 2 + 1, hi)

SumSeq(s) == SumRange(s, 1, Len(s))

\* n copies of byte b
Fill(b, n) == [i \in 1..n |-> b]

\* the first n elements of s (all of s when it is shorter)
Take(s, n) == SubSeq(s, 1, Min(n, Len(s)))

\* s without its first n elements
Drop(s, n) == SubSeq(s, Min(n, Len(s)) + 1, Len(s))

\* memcpy(dst, src + off, n) into a buffer of Len(dst) bytes: the bytes
\* that land inside dst (n <= 0 copies nothing here; what a negative or an
\* oversized n does is the caller's business)
Memcpy(dst, src, off, n) ==
    LET m == Max(0, Min(n, Len(dst)))
    IN SubSeq(src, off + 1, off + m) \o SubSeq(dst, m + 1, Len(dst))

\* bit i of byte x
Bit(x, i) == (x \div (2 ^ i)) % 2

\* static uint8_t reverse_bit(uint8_t x): the loop over the 8 bits
ReverseLoop(x) ==
    LET RECURSIVE loop(_, _)
        loop(i, y) == IF i >= 8 THEN y
                      ELSE loop(i + 1, IF Bit(x, i) = 1 /\ Bit(y, 8 - i - 1) = 0
                                       THEN y + 2 ^ (8 - i - 1) ELSE y)
    IN loop(0, 0)

\* the loop's result for every byte, computed once
ReverseTable == [x \in 0..255 |-> ReverseLoop(x)]

reverse_bit(x) == ReverseTable[x]

\* the bytes of s with reverse_bit applied to each
ReverseAll(s) == [i \in 1..Len(s) |-> reverse_bit(s[i])]

\* ------------------------------------------------------------------------
\* Transport and frame codec
\* ------------------------------------------------------------------------
\* pn532_write(data, len): the bytes handed to spi_write_blocking
pn532_write(data, len) ==
    <<reverse_bit(DATA_WRITE)>> \o ReverseAll(Take(data, len))

\* pn532_do_read(data, len) on a wire stream: spi_read_blocking delivers
\* the bytes the wire holds (at most len), each is then bit-reversed
pn532_do_read(wire, len) ==
    [result |-> Min(len, Len(wire)), data |-> ReverseAll(Take(wire, len))]

\* pn532_write_data(data, len): the frame given to write_frame
WriteDataFrame(data, len) ==
    LET body == Take(data, len)
        checksum == U8(255 + SumSeq(body))
    IN <<PN532_PREAMBLE, PN532_STARTCODE1, PN532_STARTCODE2,
         len, U8((255 - len) + 1)>>
       \o body \o <<255 - checksum, PN532_POSTAMBLE>>

\* pn532_write_data up to write_frame: the wire bytes of the command frame
pn532_write_data(data, len) ==
    pn532_write(WriteDataFrame(data, len), U8(7 + len))

\* pn532_write_command up to write_frame
pn532_write_command(cmd, param, len) ==
    LET data == <<PN532_HOSTTOPN532, cmd>> \o Take(param, len)
    IN pn532_write_data(data, U8(len + 2))

\* ------------------------------------------------------------------------
\* Response decoding
\* ------------------------------------------------------------------------
\* pn532_peak_response_len() after pn532_do_read(buf, 5): -1 or the
\* length byte
PeakCheck(buf) ==
    IF At(buf, 0) # PN532_PREAMBLE
       \/ At(buf, 1) # PN532_STARTCODE1
       \/ At(buf, 2) # PN532_STARTCODE2
    THEN -1
    ELSE IF U8(At(buf, 3) + At(buf, 4)) # 0 THEN -1 ELSE At(buf, 3)

\* int pn532_peak_response_len()
pn532_peak_response_len(wire) == PeakCheck(pn532_do_read(wire, 5).data)

\* pn532_read_data(data, len) after read_frame(resp, len + 2) returned r.
\* stored: the bytes the loop stores at data[0], data[1], ... in order
\* (empty when the function returns before the loop).
ReadDataCheck(r, len) ==
    IF r.result # len + 2 THEN [ret |-> -1, stored |-> <<>>]
    ELSE IF U8(SumSeq(SubSeq(r.data, 1, len + 1))) # 0
    THEN [ret |-> -1, stored |-> SubSeq(r.data, 1, len + 1)]
    ELSE IF At(r.data, len + 1) # PN532_POSTAMBLE
    THEN [ret |-> -1, stored |-> SubSeq(r.data, 1, len + 1)]
    ELSE [ret |-> len, stored |-> SubSeq(r.data, 1, len + 1)]

\* int pn532_read_data(uint8_t *data, uint8_t len) on the rest of the stream
pn532_read_data(wire, len) ==
    ReadDataCheck(pn532_do_read(wire, U8(len + 2)), len)

\* The outcome of pn532_read_response:
\*   ret      the return value
\*   resp     the caller's buffer afterwards
\*   nss      the chip-select level at return
\*   dread    1 when a data-mode read bracket was opened, else 0
\*   nstored  number of bytes pn532_read_data stored into data[real_len]
\*   real_len the value of pn532_peak_response_len (-1 when not called)
\*   cmd      the cmd argument
Outcome(cmd, retv, respv, level, dread, nstored, real_len) ==
    [cmd |-> cmd, ret |-> retv, resp |-> respv, nss |-> level, dread |-> dread,
     nstored |-> nstored, real_len |-> real_len]

\* ResponseCheck without the test of the command echo
ResponseCheck_NoEcho(cmd, resp, len, real_len, rd) ==
    IF rd.ret # real_len
       \/ At(rd.stored, 0) # PN532_PN532TOHOST
    THEN Outcome(cmd, -1, resp, 1, 1, Len(rd.stored), real_len)
    ELSE IF real_len - 2 > len \/ real_len - 2 <= 0
    THEN Outcome(cmd, -1, resp, 1, 1, Len(rd.stored), real_len)
    ELSE Outcome(cmd, real_len - 2, Memcpy(resp, rd.stored, 2, real_len - 2),
                 1, 1, Len(rd.stored), real_len)

\* ResponseCheck copying the body to resp before it validates the frame
ResponseCheck_CopyFirst(cmd, resp, len, real_len, rd) ==
    IF rd.ret # real_len
       \/ At(rd.stored, 0) # PN532_PN532TOHOST
       \/ At(rd.stored, 1) # cmd + 1
    THEN Outcome(cmd, -1,
                 IF rd.stored = <<>> THEN resp
                 ELSE Memcpy(resp, rd.stored, 2, Min(real_len - 2, len)),
                 1, 1, Len(rd.stored), real_len)
    ELSE IF real_len - 2 > len
    THEN Outcome(cmd, -1, resp, 1, 1, Len(rd.stored), real_len)
    ELSE IF real_len - 2 <= 0
    THEN Outcome(cmd, -1, resp, 1, 1, Len(rd.stored), real_len)
    ELSE Outcome(cmd, real_len - 2, Memcpy(resp, rd.stored, 2, real_len - 2),
                 1, 1, Len(rd.stored), real_len)

\* pn532_read_response after pn532_read_data returned rd and pn532_end_read
ResponseCheck(cmd, resp, len, real_len, rd) ==
    IF rd.ret # real_len
       \/ At(rd.stored, 0) # PN532_PN532TOHOST
       \/ At(rd.stored, 1) # cmd + 1
    THEN Outcome(cmd, -1, resp, 1, 1, Len(rd.stored), real_len)
    ELSE IF real_len - 2 > len
    THEN Outcome(cmd, -1, resp, 1, 1, Len(rd.stored), real_len)
    ELSE IF real_len - 2 <= 0
    THEN Outcome(cmd, -1, resp, 1, 1, Len(rd.stored), real_len)
    ELSE Outcome(cmd, real_len - 2, Memcpy(resp, rd.stored, 2, real_len - 2),
                 1, 1, Len(rd.stored), real_len)

\* pn532_read_response after pn532_begin_read(DATA_READ) and
\* pn532_peak_response_len returned real_len
ResponseLenCheck(cmd, resp, len, wire, real_len) ==
    IF real_len < 0 THEN Outcome(cmd, -1, resp, 0, 1, 0, real_len)
    ELSE IF real_len < 2 THEN Outcome(cmd, -1, resp, 0, 1, 0, real_len)
    ELSE ResponseCheck(cmd, resp, len, real_len,
                       pn532_read_data(Drop(wire, 5), real_len))

\* pn532_read_response opening the data-read bracket before it tests the
\* result of pn532_wait_ready
pn532_read_response_read_first(cmd, resp, len, ready, wire, level) ==
    IF ~ready THEN Outcome(cmd, -1, resp, 0, 1, 0, -1)
    ELSE ResponseLenCheck(cmd, resp, len, wire, pn532_peak_response_len(wire))

\* int pn532_read_response(cmd, resp, len), given the outcome `ready` of its
\* pn532_wait_ready call, the wire stream the chip then delivers and the
\* chip-select level before the call
pn532_read_response(cmd, resp, len, ready, wire, level) ==
    IF ~ready THEN Outcome(cmd, -1, resp, level, 0, 0, -1)
    ELSE ResponseLenCheck(cmd, resp, len, wire, pn532_peak_response_len(wire))

\* WaitStep taking every nonzero status for ready
WaitStep_AnyNonzero(r, loop, w) ==
    IF r.result = 1 /\ At(r.data, 0) # 0
    THEN [w EXCEPT !.ok = TRUE, !.reads = w.reads + 1]
    ELSE [w EXCEPT !.reads = w.reads + 1,
                   !.cbs = IF loop # "NULL" THEN w.cbs + 1 ELSE w.cbs,
                   !.delays = w.delays + 1]

\* one iteration of the loop of pn532_wait_ready, after the status read
\* returned r; w is the account of the call so far
WaitStep(r, loop, w) ==
    IF r.result = 1 /\ At(r.data, 0) = StatusReady
    THEN [w EXCEPT !.ok = TRUE, !.reads = w.reads + 1]
    ELSE [w EXCEPT !.reads = w.reads + 1,
                   !.cbs = IF loop # "NULL" THEN w.cbs + 1 ELSE w.cbs,
                   !.delays = w.delays + 1]

\* pn532_wait_ready() run on the status reads the chip answers with:
\* statuses[i] is the wire byte stream of the i-th status-mode read
\* (empty: a short read).  loop is the registered wait_loop.
RECURSIVE WaitLoop(_, _, _, _)
WaitLoop(statuses, loop, retry, w) ==
    IF w.ok \/ retry >= MaxAttempts THEN w
    ELSE WaitLoop(statuses, loop, retry + 1,
                  WaitStep(pn532_do_read(statuses[retry + 1], 1), loop, w))

\* static bool pn532_wait_ready()
pn532_wait_ready(statuses, loop) ==
    WaitLoop(statuses, loop, 0, [ok |-> FALSE, reads |-> 0, cbs |-> 0, delays |-> 0])

\* the fixed acknowledge frame
expect_ack == <<0, 0, 255, 0, 255, 0>>

\* read_ack comparing only the first 5 bytes
read_ack_first5(ready, wire) ==
    IF ~ready THEN FALSE
    ELSE IF Take(pn532_do_read(wire, 6).data, 5) # Take(expect_ack, 5)
    THEN FALSE ELSE TRUE

\* read_ack(), given the outcome of its pn532_wait_ready call and the wire
\* stream then read in data-read mode
read_ack(ready, wire) ==
    IF ~ready THEN FALSE
    ELSE IF pn532_do_read(wire, 6).data # expect_ack THEN FALSE ELSE TRUE

\* ------------------------------------------------------------------------
\* The environment: what the chip puts on the wire
\* ------------------------------------------------------------------------
\* the chip sends a byte most significant bit first; the SPI peripheral
\* delivers it least significant bit first
OnWire(bytes) == ReverseAll(bytes)

\* a well-formed chip frame around payload p
ChipFrame(p) ==
    <<0, 0, 255, Len(p), U8(256 - Len(p))>> \o p
    \o <<U8(256 - (SumSeq(p) % 256)), 0>>

\* frame f with the byte at C index i replaced by b
Corrupt(f, i, b) == [f EXCEPT ![i + 1] = b]

\* one status-mode read: the wire bytes delivered (none: a short read)
StatusIsReady == OnWire(<<1>>)
StatusNotReady == {OnWire(<<0>>), OnWire(<<128>>), <<>>}

\* 30 status reads that are all `bad` except the k-th, which says ready
\* (k outside 1..30: never ready)
StatusSeq(k, bad) ==
    [i \in 1..MaxAttempts |-> IF i = k THEN StatusIsReady ELSE bad]

\* 30 status reads that are `bad` before the k-th and ready from it on
StatusSeqFrom(k, bad) ==
    [i \in 1..MaxAttempts |-> IF i >= k THEN StatusIsReady ELSE bad]

\* the attempts at which the chip first reports ready in the runs of Spec
ReadyAtSparse == {1, MaxAttempts, MaxAttempts + 1}

StatusSeqsSparse ==
    {StatusSeq(k, OnWire(<<0>>)) : k \in ReadyAtSparse}
    \cup {StatusSeqFrom(2, <<>>)}

\* every attempt at which the chip may first report ready, with every
\* kind of not-ready read before it
StatusSeqsAll ==
    {StatusSeq(k, bad) : k \in 1..(MaxAttempts + 1), bad \in StatusNotReady}
    \cup {StatusSeqFrom(k, bad) : k \in 1..MaxAttempts, bad \in StatusNotReady}

\* acknowledge streams: the acknowledge frame, each single-byte deviation
\* of it, and a not-acknowledge frame
AckStreams ==
    {OnWire(expect_ack)}
    \cup {OnWire(Corrupt(expect_ack, i, IF expect_ack[i + 1] = 0 THEN 1 ELSE 254))
          : i \in 0..5}
    \cup {OnWire(<<0, 0, 255, 255, 0, 0>>)}

\* tag data used in the responses
UID4 == <<222, 173, 190, 239>>
UID8 == <<4, 161, 162, 163, 164, 165, 166, 167>>
IDM == <<17, 18, 19, 20, 21, 22, 23, 24>>
IDM_B == <<1, 46, 61, 72, 83, 94, 105, 116>>
PMM == <<33, 34, 35, 36, 37, 38, 39, 40>>
SYSCODE == <<136, 180>>
BLOCK == [i \in 1..16 |-> 64 + i]

\* response payloads (direction byte, command echo, body)
P_firmware == <<213, 3, 50, 1, 6, 7>>
P_config_rf == <<213, 51>>
P_config_sam == <<213, 21>>
P_poll_mifare == <<213, 75, 1, 1, 0, 4, 8, 4>> \o UID4
P_poll_mifare_two == <<213, 75, 2, 1, 0, 4, 8, 4>> \o UID4
P_poll_mifare_uid8 == <<213, 75, 1, 1, 0, 4, 8, 8>> \o UID8
P_poll_felica == <<213, 75, 1, 1, 20, 1>> \o IDM \o PMM \o SYSCODE
P_poll_felica_b == <<213, 75, 1, 2, 20, 1>> \o IDM_B \o PMM \o SYSCODE
P_status_ok == <<213, 65, 0>>
P_status_err == <<213, 65, 20>>
P_mifare_block == <<213, 65, 0>> \o BLOCK
P_felica_block == <<213, 65, 0, 29, 7>> \o IDM \o <<0, 0, 1>> \o BLOCK
P_felica_block_st == <<213, 65, 0, 29, 7>> \o IDM \o <<1, 165, 1>> \o BLOCK
P_felica_short == <<213, 65, 0, 12, 9>> \o IDM \o <<0, 0>>
P_wrong_dir == <<212, 65, 0>>

Payloads ==
    {P_firmware, P_config_rf, P_config_sam, P_poll_mifare, P_poll_mifare_two,
     P_poll_mifare_uid8, P_poll_felica, P_poll_felica_b, P_status_ok, P_status_err,
     P_mifare_block, P_felica_block, P_felica_block_st, P_felica_short,
     P_wrong_dir}

\* the wire stream of the well-formed frame around each payload
FrameOf == [p \in Payloads |-> OnWire(ChipFrame(p))]

WellFormed == {FrameOf[p] : p \in Payloads}

\* malformed streams: bad preamble, bad length checksum, declared length 0
\* and 1, bad payload checksum, bad postamble, stream cut short, and a
\* poll response with a bad payload checksum
Malformed ==
    {OnWire(Corrupt(ChipFrame(P_status_ok), 0, 1)),
     OnWire(Corrupt(ChipFrame(P_status_ok), 4, 0)),
     OnWire(ChipFrame(<<>>)),
     OnWire(ChipFrame(<<213>>)),
     OnWire(Corrupt(ChipFrame(P_status_ok), 8, 0)),
     OnWire(Corrupt(ChipFrame(P_status_ok), 9, 1)),
     OnWire(Take(ChipFrame(P_mifare_block), 9)),
     OnWire(Corrupt(ChipFrame(P_poll_mifare), 17, 0))}

RespStreams == WellFormed \cup Malformed

\* ------------------------------------------------------------------------
\* State
\* ------------------------------------------------------------------------
VARIABLES
    pc,          \* position of the operation in progress ("idle": none)
    op,          \* the operation in progress, or the last one
    ops,         \* number of operations called so far
    nss,         \* level of the chip-select line (0: asserted)
    wait_loop,   \* the registered idle callback ("NULL": none)
    readbuf,     \* static uint8_t readbuf[255]
    felica_poll_cache,
    sent,        \* wire bytes of the command frame written by this operation
    wr,          \* outcome of the last pn532_wait_ready call of this operation
    statuses,    \* the status reads offered to that call
    ackrx,       \* wire bytes read_ack read in data-read mode (<<>>: none)
    ackret,      \* value returned by pn532_write_command in this operation
    waits,       \* pn532_wait_ready calls made by this operation
    dreads,      \* data-mode read brackets opened by this operation
    rx,          \* wire bytes offered to pn532_read_response (<<>>: none)
    rr,          \* outcome of pn532_read_response in this operation
    ret,         \* value returned by the last operation
    out,         \* the caller's output parameters of the last operation
    fresh        \* what the last successful pn532_poll_felica with
                 \* from_cache false gave its caller (valid: there was one)

vars == <<pc, op, ops, nss, wait_loop, readbuf, felica_poll_cache, sent, wr,
          statuses, ackrx, ackret, waits, dreads, rx, rr, ret, out, fresh>>

\* contents of a caller's buffer before the call
Poison == 85 + 85

PoisonBuf(n) == Fill(Poison, n)

NoWait == [ok |-> FALSE, reads |-> 0, cbs |-> 0, delays |-> 0]

NoRead == [cmd |-> 0, ret |-> 0, nss |-> 1, dread |-> 0, nstored |-> 0,
           real_len |-> 0]

\* buf: uid / idm / block data / outbuf; len: *len; over: bytes written past
\* the end of buf
NoOut == [buf |-> <<>>, len |-> Poison, pmm |-> <<>>, syscode |-> <<>>,
          over |-> 0]

ZeroCache == [idm |-> Fill(0, 8), pmm |-> Fill(0, 8), syscode |-> Fill(0, 2),
              inlist_tag |-> 0]

Init ==
    /\ pc = "idle"
    /\ op = "none"
    /\ ops = 0
    /\ nss = 1
    /\ wait_loop = "NULL"
    /\ readbuf = Fill(0, ReadbufSize)
    /\ felica_poll_cache = ZeroCache
    /\ sent = <<>>
    /\ wr = NoWait
    /\ statuses = <<>>
    /\ ackrx = <<>>
    /\ ackret = 0
    /\ waits = 0
    /\ dreads = 0
    /\ rx = <<>>
    /\ rr = NoRead
    /\ ret = 0
    /\ out = NoOut
    /\ fresh = [valid |-> FALSE, idm |-> <<>>, pmm |-> <<>>, syscode |-> <<>>,
                inlist_tag |-> 0]

\* ------------------------------------------------------------------------
\* Steps shared by the operations
\* ------------------------------------------------------------------------
\* an operation calls pn532_write_command(cmd, param, len): the frame is
\* written inside a chip-select bracket and read_ack starts waiting
StartExchange(o, cmd, param, len, outInit) ==
    /\ pc = "idle"
    /\ ops < MaxOps
    /\ pc' = "ack_wait"
    /\ op' = o
    /\ ops' = ops + 1
    /\ sent' = pn532_write_command(cmd, param, len)
    /\ nss' = 1
    /\ wr' = NoWait
    /\ statuses' = <<>>
    /\ ackrx' = <<>>
    /\ ackret' = 0
    /\ waits' = 0
    /\ dreads' = 0
    /\ rx' = <<>>
    /\ rr' = NoRead
    /\ ret' = 0
    /\ out' = outInit
    /\ UNCHANGED <<wait_loop, readbuf, felica_poll_cache, fresh>>

\* one call of pn532_wait_ready, by read_ack or by pn532_read_response
WaitReady(S) ==
    /\ pc \in {"ack_wait", "resp_wait"}
    /\ \E st \in S :
          /\ wr' = pn532_wait_ready(st, wait_loop)
          /\ statuses' = st
    /\ waits' = waits + 1
    /\ nss' = 1
    /\ pc' = IF pc = "ack_wait" THEN "ack_read" ELSE "resp_read"
    /\ ackrx' = <<>>
    /\ UNCHANGED <<op, ops, wait_loop, readbuf, felica_poll_cache, sent,
                   ackret, dreads, rx, rr, ret, out, fresh>>

\* the operations that test the value of pn532_write_command (ret < 0)
ChecksAck ==
    {"firmware_ver", "poll_mifare", "select", "poll_felica", "mifare_auth",
     "mifare_read", "felica_command", "felica_read", "felica_write"}

\* what such an operation returns when the test succeeds (felica_read and
\* felica_write get -1 from pn532_felica_command and go on from there)
FailValue(o) ==
    IF o = "felica_command" THEN -1
    ELSE IF o = "felica_read" THEN 1
    ELSE 0

FailOut(o, outv) ==
    IF o = "felica_read" THEN [outv EXCEPT !.buf = Fill(0, 16)] ELSE outv

\* int pn532_write_data(): return read_ack();
AckAsInt(ok) == IF ok THEN 1 ELSE 0

\* the rest of read_ack and of pn532_write_data, and the caller's test of
\* the value pn532_write_command returned
ReadAck ==
    /\ pc = "ack_read"
    /\ \E wire \in (IF wr.ok THEN AckStreams ELSE {<<>>}) :
       \E a \in {AckAsInt(read_ack(wr.ok, wire))} :
             /\ ackrx' = wire
             /\ ackret' = a
             /\ IF op \in ChecksAck /\ a < 0
                THEN /\ pc' = "idle"
                     /\ ret' = FailValue(op)
                     /\ out' = FailOut(op, out)
                ELSE /\ pc' = "resp_wait"
                     /\ ret' = ret
                     /\ out' = out
    /\ dreads' = dreads + (IF wr.ok THEN 1 ELSE 0)
    /\ nss' = 1
    /\ statuses' = <<>>
    /\ UNCHANGED <<op, ops, wait_loop, readbuf, felica_poll_cache, sent, wr,
                   waits, rx, rr, fresh>>

\* an operation returns after its pn532_read_response call r
Finish(wire, r, retv, outv, rb, cache, fault) ==
    /\ pc' = IF fault THEN "fault" ELSE "idle"
    /\ rx' = wire
    /\ rr' = [cmd |-> r.cmd, ret |-> r.ret, nss |-> r.nss, dread |-> r.dread,
              nstored |-> r.nstored, real_len |-> r.real_len]
    /\ nss' = r.nss
    /\ dreads' = dreads + r.dread
    /\ ret' = retv
    /\ out' = outv
    /\ readbuf' = rb
    /\ felica_poll_cache' = cache
    /\ fresh' = IF op = "poll_felica" /\ retv = 1
                THEN [valid |-> TRUE, idm |-> outv.buf, pmm |-> outv.pmm,
                      syscode |-> outv.syscode, inlist_tag |-> At(rb, 1)]
                ELSE fresh
    /\ wr' = NoWait
    /\ statuses' = <<>>
    /\ UNCHANGED <<op, ops, wait_loop, sent, ackrx, ackret, waits>>

\* the wire streams offered to the pn532_read_response of a return step
Offered == IF wr.ok THEN RespStreams ELSE {<<>>}

\* ------------------------------------------------------------------------
\* Operations
\* ------------------------------------------------------------------------
\* an operation that makes no exchange is called: nothing is observed of
\* the transport
NoExchange(o, retv, outv) ==
    /\ pc = "idle"
    /\ op' = o
    /\ ret' = retv
    /\ out' = outv
    /\ sent' = <<>>
    /\ wr' = NoWait
    /\ statuses' = <<>>
    /\ ackrx' = <<>>
    /\ ackret' = 0
    /\ waits' = 0
    /\ dreads' = 0
    /\ rx' = <<>>
    /\ rr' = NoRead
    /\ UNCHANGED <<pc, ops, nss, readbuf, felica_poll_cache, fresh>>

\* void pn532_set_wait_loop(pn532_wait_loop_t loop)
pn532_set_wait_loop ==
    /\ \E loop \in {"NULL", "idle_cb"} : wait_loop' = loop
    /\ NoExchange("set_wait_loop", 0, NoOut)

\* uint32_t pn532_firmware_ver(): up to pn532_write_command
pn532_firmware_ver ==
    StartExchange("firmware_ver", 2, <<>>, 0, NoOut)

\* version <<= 8; version |= ver[i];
Pack32(ver) ==
    ((At(ver, 0) * 256 + At(ver, 1)) * 256 + At(ver, 2)) * 256 + At(ver, 3)

\* pn532_firmware_ver: from pn532_read_response to the return
pn532_firmware_ver_return ==
    /\ pc = "resp_read"
    /\ op = "firmware_ver"
    /\ \E wire \in Offered :
       \E r \in {pn532_read_response(2, PoisonBuf(4), 4, wr.ok, wire, nss)} :
          Finish(wire, r, IF r.ret < 4 THEN 0 ELSE Pack32(r.resp),
                 out, readbuf, felica_poll_cache, FALSE)

\* bool pn532_config_rf(): up to pn532_write_command
pn532_config_rf ==
    StartExchange("config_rf", 50, <<5, 255, 1, 80>>, 4, NoOut)

\* pn532_config_rf: return pn532_read_response(0x32, param, 4) == 0
pn532_config_rf_return ==
    /\ pc = "resp_read"
    /\ op = "config_rf"
    /\ \E wire \in Offered :
       \E r \in {pn532_read_response(50, <<5, 255, 1, 80>>, 4, wr.ok, wire, nss)} :
          Finish(wire, r, IF r.ret = 0 THEN 1 ELSE 0,
                 out, readbuf, felica_poll_cache, FALSE)

\* bool pn532_config_sam(): up to pn532_write_command
pn532_config_sam ==
    StartExchange("config_sam", 20, <<1, 20, 1>>, 3, NoOut)

\* pn532_config_sam: return pn532_read_response(0x14, &resp, 1) == 0
pn532_config_sam_return ==
    /\ pc = "resp_read"
    /\ op = "config_sam"
    /\ \E wire \in Offered :
       \E r \in {pn532_read_response(20, PoisonBuf(1), 1, wr.ok, wire, nss)} :
          Finish(wire, r, IF r.ret = 0 THEN 1 ELSE 0,
                 out, readbuf, felica_poll_cache, FALSE)

\* bool pn532_poll_mifare(uint8_t uid[7], int *len): up to pn532_write_command
pn532_poll_mifare ==
    StartExchange("poll_mifare", 74, <<1, 0>>, 2,
                  [NoOut EXCEPT !.buf = PoisonBuf(7)])

\* void pn532_select(): pn532_poll_mifare(ignore_buf, &ignore_len)
pn532_select ==
    StartExchange("select", 74, <<1, 0>>, 2,
                  [NoOut EXCEPT !.buf = PoisonBuf(7)])

\* pn532_poll_mifare_return without the test of the tag count
pn532_poll_mifare_return_any_count ==
    /\ pc = "resp_read"
    /\ op \in {"poll_mifare", "select"}
    /\ \E wire \in Offered :
       \E r \in {pn532_read_response(74, readbuf, ReadbufSize, wr.ok, wire, nss)} :
       \E idlen \in {At(r.resp, 5)} :
          IF r.ret < 1
          THEN Finish(wire, r, 0, out, r.resp, felica_poll_cache, FALSE)
          ELSE IF idlen > 8 \/ r.ret # idlen + 6
          THEN Finish(wire, r, 0, out, r.resp, felica_poll_cache, FALSE)
          ELSE Finish(wire, r, 1,
                      [out EXCEPT !.buf = Memcpy(out.buf, r.resp, 6, idlen),
                                  !.over = Max(0, idlen - Len(out.buf)),
                                  !.len = idlen],
                      r.resp, felica_poll_cache, FALSE)

\* pn532_poll_mifare: from pn532_read_response to the return
pn532_poll_mifare_return ==
    /\ pc = "resp_read"
    /\ op \in {"poll_mifare", "select"}
    /\ \E wire \in Offered :
       \E r \in {pn532_read_response(74, readbuf, ReadbufSize, wr.ok, wire, nss)} :
       \E idlen \in {At(r.resp, 5)} :
          IF r.ret < 1 \/ At(r.resp, 0) # 1
          THEN Finish(wire, r, 0, out, r.resp, felica_poll_cache, FALSE)
          ELSE IF idlen > 8 \/ r.ret # idlen + 6
          THEN Finish(wire, r, 0, out, r.resp, felica_poll_cache, FALSE)
          ELSE Finish(wire, r, 1,
                      [out EXCEPT !.buf = Memcpy(out.buf, r.resp, 6, idlen),
                                  !.over = Max(0, idlen - Len(out.buf)),
                                  !.len = idlen],
                      r.resp, felica_poll_cache, FALSE)

\* the cached poll answering from the scratch buffer instead of the cache
pn532_poll_felica_from_scratch ==
    /\ NoExchange("poll_felica_cached", 1,
                  [NoOut EXCEPT !.buf = SubSeq(readbuf, 5, 12),
                                !.pmm = SubSeq(readbuf, 13, 20),
                                !.syscode = SubSeq(readbuf, 21, 22)])
    /\ UNCHANGED wait_loop

\* pn532_poll_felica(uid, pmm, syscode, from_cache) with from_cache true
pn532_poll_felica_cached ==
    /\ NoExchange("poll_felica_cached", 1,
                  [NoOut EXCEPT !.buf = felica_poll_cache.idm,
                                !.pmm = felica_poll_cache.pmm,
                                !.syscode = felica_poll_cache.syscode])
    /\ UNCHANGED wait_loop

\* pn532_poll_felica with from_cache false: up to pn532_write_command
pn532_poll_felica ==
    StartExchange("poll_felica", 74, <<1, 1, 0, 255, 255, 1, 0>>, 7,
                  [NoOut EXCEPT !.buf = PoisonBuf(8), !.pmm = PoisonBuf(8),
                                !.syscode = PoisonBuf(2)])

\* pn532_poll_felica: from pn532_read_response to the return
pn532_poll_felica_return ==
    /\ pc = "resp_read"
    /\ op = "poll_felica"
    /\ \E wire \in Offered :
       \E r \in {pn532_read_response(74, readbuf, ReadbufSize, wr.ok, wire, nss)} :
          IF r.ret # 22 \/ At(r.resp, 0) # 1 \/ At(r.resp, 2) # 20
          THEN Finish(wire, r, 0, out, r.resp, felica_poll_cache, FALSE)
          ELSE Finish(wire, r, 1,
                      [out EXCEPT !.buf = SubSeq(r.resp, 5, 12),
                                  !.pmm = SubSeq(r.resp, 13, 20),
                                  !.syscode = SubSeq(r.resp, 21, 22)],
                      r.resp,
                      [idm |-> SubSeq(r.resp, 5, 12),
                       pmm |-> SubSeq(r.resp, 13, 20),
                       syscode |-> SubSeq(r.resp, 21, 22),
                       inlist_tag |-> At(r.resp, 1)],
                      FALSE)

\* arguments the callers pass
KeyIds == {0, 1}
KEY == <<255, 255, 255, 255, 255, 255>>
BlockIds == {4}
SvcCodes == {11}
FelicaBlocks == {32768}

\* uint8_t param[] = { 1, svc_code & 0xff, svc_code >> 8,
\*                     1, block_id >> 8, block_id & 0xff };
FelicaParam(svc_code, block_id) ==
    <<1, svc_code % 256, svc_code \div 256,
      1, block_id \div 256, block_id % 256>>

\* bool pn532_mifare_auth(uid, block_id, key_id, key): up to pn532_write_command
pn532_mifare_auth ==
    \E key_id \in KeyIds, block_id \in BlockIds :
        StartExchange("mifare_auth", 64,
                      <<1, IF key_id # 0 THEN 97 ELSE 96, block_id>>
                      \o KEY \o UID4, 13, NoOut)

\* pn532_mifare_auth: from pn532_read_response to the return
pn532_mifare_auth_return ==
    /\ pc = "resp_read"
    /\ op = "mifare_auth"
    /\ \E wire \in Offered :
       \E r \in {pn532_read_response(64, readbuf, ReadbufSize, wr.ok, wire, nss)} :
          IF At(r.resp, 0) # 0
          THEN Finish(wire, r, 0, out, r.resp, felica_poll_cache, FALSE)
          ELSE Finish(wire, r, 1, out, r.resp, felica_poll_cache, FALSE)

\* bool pn532_mifare_read(block_id, block_data): up to pn532_write_command
pn532_mifare_read ==
    \E block_id \in BlockIds :
        StartExchange("mifare_read", 64, <<1, 48, block_id>>, 3,
                      [NoOut EXCEPT !.buf = PoisonBuf(16)])

\* pn532_mifare_read: from pn532_read_response to the return
pn532_mifare_read_return ==
    /\ pc = "resp_read"
    /\ op = "mifare_read"
    /\ \E wire \in Offered :
       \E r \in {pn532_read_response(64, readbuf, ReadbufSize, wr.ok, wire, nss)} :
          IF At(r.resp, 0) # 0 \/ r.ret # 17
          THEN Finish(wire, r, 0, out, r.resp, felica_poll_cache, FALSE)
          ELSE Finish(wire, r, 1, [out EXCEPT !.buf = SubSeq(r.resp, 2, 17)],
                      r.resp, felica_poll_cache, FALSE)

\* FelicaCmdBuf addressing logical tag 1 whatever the cache holds
FelicaCmdBuf_tag1(cmd, param, param_len) ==
    <<1, U8(param_len + 11), cmd>>
    \o felica_poll_cache.idm \o Take(param, param_len)

\* pn532_felica_command(cmd, param, param_len, outbuf): the cmd_buf it builds
FelicaCmdBuf(cmd, param, param_len) ==
    <<felica_poll_cache.inlist_tag, U8(param_len + 11), cmd>>
    \o felica_poll_cache.idm \o Take(param, param_len)

\* pn532_felica_command up to pn532_write_command (sizeof(cmd_buf) is
\* passed as a uint8_t)
FelicaStart(o, cmd, param, param_len, outInit) ==
    StartExchange(o, 64, FelicaCmdBuf(cmd, param, param_len),
                  U8(param_len + 11 + 1), outInit)

\* pn532_felica_command after pn532_read_response returned r.
\*   ret     the return value
\*   outlen  the count given to memmove (negative: converted to a huge
\*           size_t, the copy runs off the end of memory)
\*   copied  whether memmove was called
FelicaTail(r) ==
    IF (At(r.resp, 0) % 64) # 0 \/ r.ret - 2 # At(r.resp, 1) - 1
    THEN [ret |-> -1, outlen |-> At(r.resp, 1) - 1, copied |-> FALSE]
    ELSE [ret |-> At(r.resp, 1) - 1, outlen |-> At(r.resp, 1) - 1,
          copied |-> TRUE]

\* memmove(outbuf, readbuf + 2, outlen) with outbuf = readbuf
MoveDown(rb, outlen) == Memcpy(rb, rb, 2, outlen)

\* caller's buffer for a direct pn532_felica_command call
OutbufSize == 32

\* int pn532_felica_command(cmd, param, param_len, outbuf) called directly
pn532_felica_command ==
    \E svc_code \in SvcCodes, block_id \in FelicaBlocks :
        FelicaStart("felica_command", 6, FelicaParam(svc_code, block_id), 6,
                    [NoOut EXCEPT !.buf = PoisonBuf(OutbufSize)])

pn532_felica_command_return ==
    /\ pc = "resp_read"
    /\ op = "felica_command"
    /\ \E wire \in Offered :
       \E r \in {pn532_read_response(64, readbuf, ReadbufSize, wr.ok, wire, nss)} :
       \E t \in {FelicaTail(r)} :
          IF ~t.copied
          THEN Finish(wire, r, -1, out, r.resp, felica_poll_cache, FALSE)
          ELSE Finish(wire, r, t.ret,
                      [out EXCEPT !.buf = Memcpy(out.buf, r.resp, 2, t.outlen),
                                  !.over = Max(0, t.outlen - Len(out.buf))],
                      r.resp, felica_poll_cache, t.outlen < 0)

\* bool pn532_felica_read(svc_code, block_id, block_data): up to
\* pn532_write_command
pn532_felica_read ==
    \E svc_code \in SvcCodes, block_id \in FelicaBlocks :
        FelicaStart("felica_read", 6, FelicaParam(svc_code, block_id), 6,
                    [NoOut EXCEPT !.buf = PoisonBuf(16)])

\* pn532_felica_read: from pn532_read_response to the return
pn532_felica_read_return ==
    /\ pc = "resp_read"
    /\ op = "felica_read"
    /\ \E wire \in Offered :
       \E r \in {pn532_read_response(64, readbuf, ReadbufSize, wr.ok, wire, nss)} :
       \E t \in {FelicaTail(r)} :
       \E rb \in {IF t.copied THEN MoveDown(r.resp, t.outlen) ELSE r.resp} :
          IF t.copied /\ t.outlen < 0
          THEN Finish(wire, r, 0, out, r.resp, felica_poll_cache, TRUE)
          ELSE IF t.ret # 12 + 16 \/ At(rb, 9) # 0 \/ At(rb, 10) # 0
          THEN Finish(wire, r, 1, [out EXCEPT !.buf = Fill(0, 16)],
                      rb, felica_poll_cache, FALSE)
          ELSE Finish(wire, r, 1, [out EXCEPT !.buf = SubSeq(rb, 13, 28)],
                      rb, felica_poll_cache, FALSE)

\* bool pn532_felica_write(svc_code, block_id, block_data): up to
\* pn532_write_command
pn532_felica_write ==
    \E svc_code \in SvcCodes, block_id \in FelicaBlocks :
        FelicaStart("felica_write", 8,
                    FelicaParam(svc_code, block_id) \o BLOCK, 22, NoOut)

\* pn532_felica_write: from pn532_read_response to the return
pn532_felica_write_return ==
    /\ pc = "resp_read"
    /\ op = "felica_write"
    /\ \E wire \in Offered :
       \E r \in {pn532_read_response(64, readbuf, ReadbufSize, wr.ok, wire, nss)} :
       \E t \in {FelicaTail(r)} :
       \E rb \in {IF t.copied THEN MoveDown(r.resp, t.outlen) ELSE r.resp} :
          IF t.copied /\ t.outlen < 0
          THEN Finish(wire, r, 0, out, r.resp, felica_poll_cache, TRUE)
          ELSE IF t.ret < 0
          THEN Finish(wire, r, 0, out, rb, felica_poll_cache, FALSE)
          ELSE Finish(wire, r, 0, out, rb, felica_poll_cache, FALSE)

\* ------------------------------------------------------------------------
\* Specification
\* ------------------------------------------------------------------------
Next ==
    \/ pn532_set_wait_loop
    \/ WaitReady(StatusSeqsSparse)
    \/ ReadAck
    \/ pn532_firmware_ver
    \/ pn532_firmware_ver_return
    \/ pn532_config_rf
    \/ pn532_config_rf_return
    \/ pn532_config_sam
    \/ pn532_config_sam_return
    \/ pn532_poll_mifare
    \/ pn532_select
    \/ pn532_poll_mifare_return
    \/ pn532_poll_felica_cached
    \/ pn532_poll_felica
    \/ pn532_poll_felica_return
    \/ pn532_mifare_auth
    \/ pn532_mifare_auth_return
    \/ pn532_mifare_read
    \/ pn532_mifare_read_return
    \/ pn532_felica_command
    \/ pn532_felica_command_return
    \/ pn532_felica_read
    \/ pn532_felica_read_return
    \/ pn532_felica_write
    \/ pn532_felica_write_return

Spec == Init /\ [][Next]_vars

\* the ready-wait under every status sequence, in the configuration
\* operation
NextWait ==
    \/ pn532_set_wait_loop
    \/ WaitReady(StatusSeqsAll)
    \/ ReadAck
    \/ pn532_config_sam
    \/ pn532_config_sam_return

SpecWait == Init /\ [][NextWait]_vars

\* ------------------------------------------------------------------------
\* The frame codec on its own: pn532_write_data on a payload, and the frame
\* it wrote read back by pn532_peak_response_len and pn532_read_data
\* ------------------------------------------------------------------------
\* uint8_t len: every length the parameter can hold
PayloadLens == 0..255

\* the payload bytes: byte i of pattern k
PayloadPatterns == {0, 1}

CodecPayload(n, k) == [i \in 1..n |-> (7 * i + 90 * k) % 256]

InitCodec ==
    /\ pc = "codec_input"
    /\ op = "write_data"
    /\ ops = 0
    /\ nss = 1
    /\ wait_loop = "NULL"
    /\ readbuf = <<>>
    /\ felica_poll_cache = ZeroCache
    /\ sent = <<>>
    /\ wr = NoWait
    /\ statuses = <<>>
    /\ ackrx = <<>>
    /\ ackret = 0
    /\ waits = 0
    /\ dreads = 0
    /\ rx = <<>>
    /\ rr = NoRead
    /\ ret = 0
    /\ \E n \in PayloadLens, k \in PayloadPatterns :
          out = [NoOut EXCEPT !.buf = CodecPayload(n, k), !.len = n]
    /\ fresh = [valid |-> FALSE, idm |-> <<>>, pmm |-> <<>>, syscode |-> <<>>,
                inlist_tag |-> 0]

\* pn532_write_data(out.buf, out.len) up to write_frame: sent is what
\* spi_write_blocking is given
CodecWrite ==
    /\ pc = "codec_input"
    /\ pc' = "codec_written"
    /\ sent' = pn532_write_data(out.buf, out.len)
    /\ UNCHANGED <<op, ops, nss, wait_loop, readbuf, felica_poll_cache, wr,
                   statuses, ackrx, ackret, waits, dreads, rx, rr, ret, out,
                   fresh>>

\* pn532_read_data on the rest of the stream when pn532_peak_response_len
\* returned real_len (negative: pn532_read_data is not called)
CodecReadData(wire, real_len) ==
    IF real_len < 0 THEN [ret |-> -1, stored |-> <<>>]
    ELSE pn532_read_data(Drop(wire, 5), real_len)

\* what the transport clocks in once the bytes written have been
\* delivered: the idle level of the data line, for as many bytes as the
\* longest read sequence asks for (5 + 255 + 2)
IdleLine == {0, 255}

IdlePad(wire, idle) == wire \o Fill(idle, Max(0, (5 + 255 + 2) - Len(wire)))

\* the frame after the mode byte is delivered back by the transport:
\* pn532_peak_response_len, then pn532_read_data(data, real_len); readbuf
\* stands for data
CodecRead ==
    /\ pc = "codec_written"
    /\ pc' = "codec_read"
    /\ \E idle \in IdleLine :
       \E wire \in {IdlePad(Drop(sent, 1), idle)} :
       \E real_len \in {pn532_peak_response_len(wire)} :
       \E rd \in {CodecReadData(wire, real_len)} :
          /\ rx' = wire
          /\ rr' = [NoRead EXCEPT !.real_len = real_len, !.ret = rd.ret,
                                  !.nstored = Len(rd.stored)]
          /\ readbuf' = rd.stored
    /\ UNCHANGED <<op, ops, nss, wait_loop, felica_poll_cache, sent, wr,
                   statuses, ackrx, ackret, waits, dreads, ret, out, fresh>>

NextCodec ==
    \/ CodecWrite
    \/ CodecRead

SpecCodec == InitCodec /\ [][NextCodec]_vars

\* ------------------------------------------------------------------------
\* Properties
\* ------------------------------------------------------------------------
\* the acknowledge frame as the wire carries it (0x00 and 0xFF read the
\* same in both bit orders)
AckOnWire == <<0, 0, 255, 0, 255, 0>>

\* a status-mode read that is complete and carries 0x01 (sent most
\* significant bit first, so the SPI peripheral delivers 0x80)
IsReadyRead(st) == st = <<128>>

\* the first of the offered status reads that says ready (0: none does)
FirstReady(sts) ==
    IF \E i \in 1..MaxAttempts : IsReadyRead(sts[i])
    THEN CHOOSE i \in 1..MaxAttempts :
            /\ IsReadyRead(sts[i])
            /\ \A j \in 1..(i - 1) : ~IsReadyRead(sts[j])
    ELSE 0

\* pn532_wait_ready has just returned
WaitReturned == pc \in {"ack_read", "resp_read"}

\* wire is a frame with valid preamble, checksums and postamble whose
\* direction byte is not 0xD5 or whose command byte is not cmd + 1
MismatchedValidFrame(wire, cmd) ==
    \E p \in Payloads :
        /\ wire = FrameOf[p]
        /\ (p[1] # 213 \/ p[2] # cmd + 1)

\* wire is a well-formed response to cmd with an empty body
EmptyBodyResponse(wire, cmd) == wire = OnWire(ChipFrame(<<213, cmd + 1>>))

\* C1: pn532_config_rf and pn532_config_sam return true when the chip
\* answers their command with a well-formed frame, direction 0xD5, command
\* byte = command code + 1 and an empty body.
C1_ConfigAcceptsEmptyBody ==
    (pc = "idle" /\ op \in {"config_rf", "config_sam"}
     /\ EmptyBodyResponse(rx, rr.cmd))
    => ret = 1

\* the operations C2 lists
C2Ops == {"firmware_ver", "poll_mifare", "poll_felica", "mifare_auth",
          "mifare_read", "felica_command"}

\* C2: when pn532_write_command fails (the acknowledge frame does not
\* arrive within the ready-wait budget, or mismatches), the operation does
\* not go on to pn532_read_response: it never waits for the chip a second
\* time.
C2_NoResponseReadAfterFailedAck ==
    (op \in C2Ops /\ pc = "resp_wait") => (wr.ok /\ ackrx = AckOnWire)

\* C3: pn532_mifare_auth returns true only if pn532_read_response of that
\* same call delivered a response (whose first status byte is 0); when the
\* response read fails it returns false whatever the scratch buffer holds.
C3_AuthNeedsFreshStatus ==
    (pc = "idle" /\ op = "mifare_auth" /\ ret = 1)
    => (rr.ret >= 1 /\ At(readbuf, 0) = 0)

\* C4: chip-select is deasserted whenever a driver operation returns.
C4_ChipSelectReleased == pc = "idle" => nss = 1

\* C5: one call of pn532_wait_ready invokes the idle callback at most
\* max_attempts - 1 = 29 times.
C5_CallbackBound == WaitReturned => wr.cbs <= MaxAttempts - 1

\* C6: pn532_wait_ready returns false exactly when none of the 30 status
\* reads is a complete 1-byte read of 0x01; it returns true at the first
\* read that is, having made no status read after it and one callback (if
\* registered) and one delay for each read before it.
C6_WaitReadyResult ==
    WaitReturned =>
        /\ wr.ok <=> FirstReady(statuses) # 0
        /\ wr.ok => /\ wr.reads = FirstReady(statuses)
                    /\ wr.delays = FirstReady(statuses) - 1
                    /\ wr.cbs = IF wait_loop = "NULL" THEN 0
                                ELSE FirstReady(statuses) - 1
        /\ ~wr.ok => wr.reads = MaxAttempts

\* the chip reported ready at the last of the 30 attempts
C6_Witness ==
    /\ pc = "resp_read"
    /\ wr.ok
    /\ wr.reads = MaxAttempts
    /\ wr.cbs = MaxAttempts - 1

\* C7: read_ack returns true iff pn532_wait_ready succeeded and the 6 bytes
\* then read equal 00 00 FF 00 FF 00; pn532_write_data and
\* pn532_write_command return exactly that result.
C7_AckResult ==
    pc = "resp_wait"
    => ackret = (IF wr.ok /\ ackrx = AckOnWire THEN 1 ELSE 0)

\* the chip was ready and the last acknowledge byte alone deviates
C7_Witness ==
    /\ pc = "resp_wait"
    /\ wr.ok
    /\ ackrx = <<0, 0, 255, 0, 255, 128>>
    /\ ackret = 0

\* C8: pn532_read_response returns a negative value and leaves the response
\* buffer alone whenever the frame read is valid but its direction byte is
\* not 0xD5 or its command byte is not cmd + 1.
C8_RejectsWrongEcho ==
    [][(pc = "resp_read" /\ pc' # "resp_read"
        /\ MismatchedValidFrame(rx', rr'.cmd))
       => (rr'.ret < 0 /\ readbuf' = readbuf)]_vars

\* a valid in-data-exchange response was read by pn532_poll_mifare and
\* rejected
C8_Witness ==
    /\ pc = "idle"
    /\ op = "poll_mifare"
    /\ rx = OnWire(ChipFrame(P_status_ok))
    /\ rr.dread = 1
    /\ rr.ret < 0

\* C9: pn532_poll_felica with from_cache true, after a successful fresh
\* poll and whatever other operations, returns true with the IDm, PMm and
\* system code the fresh poll returned, and makes no transport transfer,
\* chip-select change or ready-wait.
C9_CachedPoll ==
    [][(pc = "idle" /\ op' = "poll_felica_cached" /\ fresh.valid)
       => /\ pc' = "idle"
          /\ ret' = 1
          /\ out'.buf = fresh.idm
          /\ out'.pmm = fresh.pmm
          /\ out'.syscode = fresh.syscode
          /\ nss' = nss
          /\ sent' = <<>>
          /\ waits' = 0
          /\ dreads' = 0]_vars

\* a cached poll after a fresh poll and a later exchange that overwrote
\* the scratch buffer
C9_Witness ==
    /\ pc = "idle"
    /\ op = "poll_felica_cached"
    /\ fresh.valid
    /\ out.buf = IDM
    /\ out.pmm = PMM
    /\ out.syscode = SYSCODE
    /\ SubSeq(readbuf, 5, 12) # IDM

\* wire is a response pn532_felica_read takes a block from: status low 6
\* bits 0, inner length 29 (28 bytes after the length byte), both per-block
\* status bytes 0
ValidBlockResponse(wire) ==
    \E p \in Payloads :
        /\ wire = FrameOf[p]
        /\ Len(p) = 32
        /\ p[1] = 213 /\ p[2] = 65
        /\ p[3] % 64 = 0
        /\ p[4] = 29
        /\ p[14] = 0 /\ p[15] = 0

\* the 16 data bytes after the 12-byte header of the inner response
BlockOf(wire) ==
    LET p == CHOOSE q \in Payloads : wire = FrameOf[q]
    IN SubSeq(p, 17, 32)

\* C10: pn532_felica_read returns true on every path, with 16 zero bytes
\* when the exchange fails or the response is structurally invalid and
\* with the 16 data bytes of the response otherwise.
C10_FelicaReadAlwaysTrue ==
    (op = "felica_read" /\ pc \in {"idle", "fault"})
    => /\ pc = "idle"
       /\ ret = 1
       /\ out.buf = IF ValidBlockResponse(rx) THEN BlockOf(rx)
                    ELSE Fill(0, 16)

\* the response is one pn532_felica_command accepts whatever the scratch
\* buffer held: status low 6 bits 0 and inner length byte - 1 = body
\* length - 2
FelicaAckValid(wire) ==
    \E p \in Payloads :
        /\ wire = FrameOf[p]
        /\ Len(p) >= 4
        /\ p[1] = 213 /\ p[2] = 65
        /\ p[3] % 64 = 0
        /\ p[4] - 1 = Len(p) - 4

\* C11: pn532_felica_write returns true when the write exchange yields a
\* structurally valid acknowledgment (pn532_felica_command returns a
\* non-negative length) and false when the exchange fails.
C11_FelicaWriteResult ==
    (pc = "idle" /\ op = "felica_write")
    => (ret = 1 <=> (rr.ret >= 2 /\ FelicaAckValid(rx)))

\* C12: for every payload of length 0..255 pn532_write_data hands the
\* transport the mode byte and the complete frame of 7 + length bytes, and
\* that frame read back by pn532_peak_response_len and pn532_read_data is
\* accepted with the original length and the original payload bytes.
C12_CodecRoundTrip ==
    /\ pc \in {"codec_written", "codec_read"} => Len(sent) = 1 + 7 + out.len
    /\ pc = "codec_read"
       => /\ rr.real_len = out.len
          /\ rr.ret = out.len
          /\ Take(readbuf, out.len) = out.buf

\* an operation returns from its pn532_read_response call
Returns == pc = "resp_read" /\ pc' = "idle"

\* pn532_read_response fails: the response buffer (readbuf in the
\* operations that pass it) is as before the call
RespBufferKept == rr'.ret < 0 => readbuf' = readbuf

\* pn532_poll_mifare, pn532_poll_felica, pn532_mifare_read return false or
\* pn532_felica_command called with a buffer of the caller's returns a
\* negative value: uid and *len, IDm/PMm/system code, block data, outbuf
\* are as before the call
CallerOutputsKept ==
    /\ (op \in {"poll_mifare", "select", "poll_felica", "mifare_read"}
        /\ ret' = 0) => out' = out
    /\ (op = "felica_command" /\ ret' < 0) => out' = out

\* pn532_felica_command called by pn532_felica_read or pn532_felica_write
\* (outbuf is readbuf) returns a negative value: outbuf is as before
ScratchOutbufKept ==
    (op \in {"felica_read", "felica_write"}
     /\ (rr'.ret < 2 \/ ~FelicaAckValid(rx')))
    => readbuf' = readbuf

\* C13 as stated: when pn532_read_response, pn532_poll_mifare,
\* pn532_poll_felica, pn532_mifare_read or pn532_felica_command reports
\* failure, the output parameters its caller supplied hold the values they
\* held before the call, in every call the driver makes.
C13_OutputsKeptOnFailure ==
    [][Returns => (RespBufferKept /\ CallerOutputsKept /\ ScratchOutbufKept)]_vars

\* C13 amended: the same, for every output parameter other than the scratch
\* buffer that pn532_felica_read and pn532_felica_write pass to
\* pn532_felica_command as outbuf.
C13_OutputsKeptOnFailure_Amended ==
    [][Returns => (RespBufferKept /\ CallerOutputsKept)]_vars

\* pn532_poll_mifare read a valid response into the scratch buffer,
\* rejected it for its tag count and left uid and *len alone
C13_Witness ==
    /\ pc = "idle"
    /\ op = "poll_mifare"
    /\ ret = 0
    /\ rr.ret = 10
    /\ At(readbuf, 0) = 2
    /\ out.buf = PoisonBuf(7)
    /\ out.len = Poison

\* the payload of the well-formed frame the wire stream is (<<>>: it is
\* none)
PayloadOf(wire) ==
    IF \E p \in Payloads : wire = FrameOf[p]
    THEN CHOOSE p \in Payloads : wire = FrameOf[p]
    ELSE <<>>

\* the body of the response to an in-list-passive-target command that the
\* wire stream delivers (<<>>: it delivers none)
PollBody(wire) ==
    IF Len(PayloadOf(wire)) > 2 /\ PayloadOf(wire)[1] = 213
       /\ PayloadOf(wire)[2] = 75
    THEN Drop(PayloadOf(wire), 2)
    ELSE <<>>

\* tag count 1, UID length at most 8, body length = UID length + 6
MifareBodyOK(body) ==
    /\ Len(body) >= 6
    /\ At(body, 0) = 1
    /\ At(body, 5) <= 8
    /\ Len(body) = At(body, 5) + 6

\* C14: pn532_poll_mifare returns true iff the response body read in that
\* call has tag count 1, a UID length of at most 8 and a body length of UID
\* length + 6; it then gives the caller the UID-length bytes at offset 6
\* and sets *len to that length, and otherwise leaves both alone.
C14_PollMifareResult ==
    (pc = "idle" /\ op \in {"poll_mifare", "select"})
    => /\ ret = 1 <=> (rr.ret >= 1 /\ MifareBodyOK(PollBody(rx)))
       /\ ret = 1
          => /\ out.len = At(PollBody(rx), 5)
             /\ \A i \in 1..7 :
                   out.buf[i] = IF i <= out.len THEN PollBody(rx)[6 + i]
                                ELSE Poison
       /\ ret = 0 => (out.buf = PoisonBuf(7) /\ out.len = Poison)

\* a 4-byte UID was returned
C14_Witness ==
    /\ pc = "idle"
    /\ op = "poll_mifare"
    /\ ret = 1
    /\ rx = OnWire(ChipFrame(P_poll_mifare))
    /\ out.len = 4
    /\ out.buf = UID4 \o PoisonBuf(3)

\* the operations that run pn532_felica_command
FelicaOps == {"felica_command", "felica_read", "felica_write"}

\* C15: pn532_felica_command copies to its output buffer and returns a
\* non-negative length only when the response read in that call succeeded
\* with status low 6 bits 0 and a consistent inner length, and it never
\* copies a negative number of bytes or more than the body length - 2,
\* whatever the scratch buffer held.
C15_FelicaCommandCopy ==
    (op = "felica_command" /\ pc \in {"idle", "fault"})
    => /\ pc # "fault"
       /\ ret >= 0 => /\ rr.ret >= 2
                      /\ FelicaAckValid(rx)
                      /\ ret <= rr.ret - 2
       /\ ret < 0 => out.buf = PoisonBuf(OutbufSize)

\* the cache a successful fresh poll leaves, or the initial one
CacheOfFresh ==
    IF fresh.valid
    THEN [idm |-> fresh.idm, pmm |-> fresh.pmm, syscode |-> fresh.syscode,
          inlist_tag |-> fresh.inlist_tag]
    ELSE ZeroCache

\* the command frame written, as the chip reads it
SentFrame == ReverseAll(Drop(sent, 1))

\* C16: felica_poll_cache always holds the IDm, PMm, system code and tag
\* handle of the most recent successful pn532_poll_felica with from_cache
\* false (taken from the response of that poll), or zeros if there was none,
\* and pn532_felica_command addresses the tag with that handle and IDm.
C16_CacheIsLastFreshPoll ==
    /\ felica_poll_cache = CacheOfFresh
    /\ (pc = "idle" /\ op = "poll_felica" /\ ret = 1)
       => /\ fresh.valid
          /\ felica_poll_cache.inlist_tag = PayloadOf(rx)[4]
          /\ felica_poll_cache.idm = SubSeq(PayloadOf(rx), 7, 14)
          /\ felica_poll_cache.pmm = SubSeq(PayloadOf(rx), 15, 22)
          /\ felica_poll_cache.syscode = SubSeq(PayloadOf(rx), 23, 24)
    /\ op \in FelicaOps
       => /\ SentFrame[8] = felica_poll_cache.inlist_tag
          /\ SubSeq(SentFrame, 11, 18) = felica_poll_cache.idm

\* a felica command is sent after a fresh poll found the second tag
C16_Witness ==
    /\ op = "felica_read"
    /\ pc = "ack_wait"
    /\ fresh.valid
    /\ felica_poll_cache.idm = IDM_B
    /\ felica_poll_cache.inlist_tag = 2
    /\ SubSeq(SentFrame, 11, 18) = IDM_B

\* C17: every driver operation terminates: it never stops short of
\* returning, makes at most two pn532_wait_ready calls of at most 30 status
\* reads each (60 in all), writes one command frame and opens at most two
\* data-mode read brackets.
C17_BoundedExchange ==
    /\ pc # "fault"
    /\ waits <= 2
    /\ wr.reads <= MaxAttempts
    /\ dreads <= 2
    /\ (pc # "idle" \/ waits > 0) => Len(SentFrame) > 0

\* C18: a data-mode read bracket is opened only by the step that follows a
\* pn532_wait_ready call whose last status read was 0x01, never after one
\* that used up its 30 attempts, and the response is read only after the
\* command frame of the operation was written and its acknowledge step done.
C18_ReadOnlyWhenReady ==
    [][/\ dreads' > dreads
          => /\ pc \in {"ack_read", "resp_read"}
             /\ wr.ok
             /\ wr.reads >= 1
             /\ IsReadyRead(statuses[wr.reads])
             /\ dreads' = dreads + 1
       /\ (pc \in {"ack_read", "resp_read"} /\ ~wr.ok)
          => (dreads' = dreads /\ wr.reads = MaxAttempts)
       /\ rr'.dread = 1
          => (pc = "resp_read" /\ waits = 2 /\ Len(SentFrame) > 0)]_vars

\* the acknowledge frame was read and found wrong, and the response was
\* then read in a second data-mode bracket
C18_Witness ==
    /\ pc = "idle"
    /\ dreads = 2
    /\ ackret = 0
    /\ rr.dread = 1
    /\ rr.ret >= 1

\* C19: pn532_read_data(data, len) stores only into data[0..len-1].
C19_ReadDataInBounds ==
    rr.real_len >= 0 => rr.nstored <= rr.real_len

\* C20: pn532_poll_mifare never writes more than 7 bytes into uid.
C20_UidWithinSeven ==
    op \in {"poll_mifare", "select"} => out.over = 0

====
